---- MODULE Spec2Model ----
(***************************************************************************)
(* A model of Ditatocsvnew2.py: the DITA-to-CSV converter.                 *)
(*                                                                         *)
(* Text is a sequence of one-character strings, so that startswith,        *)
(* replace, strip, lower and join are computed character by character.     *)
(* A parsed document (a BeautifulSoup tree) is the sequence of its         *)
(* elements in document order (preorder); each element carries its tag,    *)
(* its depth below the document root and the text that stands directly     *)
(* inside it, before its first child.                                      *)
(***************************************************************************)
EXTENDS Integers, Sequences, FiniteSets, TLC

VARIABLES
    file,           \* the file handed to an extractor: [readable, doc]
    fn,             \* the function that has been applied to its input ("none": not yet)
    ret,            \* what the extractor returned
    folder,         \* the input folder: [ok, files], files mapping each name to its file
    out,            \* the output file: [exists, rows], the rows the csv writer wrote
    pc,             \* where process_folder stands
    listing,        \* os.listdir(input_folder)
    matched_files,  \* the list of (base file, testcase file)
    pair_index,     \* the pair the loop of line 170 is at
    data,           \* the list of rows
    results,        \* what the three extractor calls returned for the latest pair
    row_pair,       \* history: for each row of data, the pair it came from
    row_index,      \* the row writerows is at
    before          \* history: the output file as it was when the run started

vars == <<file, fn, ret, folder, out, pc, listing, matched_files, pair_index, data,
          results, row_pair, row_index, before>>

extractorVars == <<file, ret>>
runVars == <<folder, out, pc, pair_index, data, results, row_pair, row_index, before>>

\* Python's None: a value that is no text (a text holds one-character strings)
None == <<"None">>

\* A file: readable is FALSE when open() or the parser raises on it; doc is
\* the tree BeautifulSoup builds from it otherwise.
File(readable, d) == [readable |-> readable, doc |-> d]

\* The output file before any run, and the input folder when it cannot be listed
Absent == [exists |-> FALSE, rows |-> <<>>]
NoFolder == [ok |-> FALSE, files |-> <<>>]

NoResult ==
    [custom_field_premise |-> None,
     base |-> [title |-> None, description |-> None, premise |-> None,
               requirements |-> None],
     testcase |-> [title |-> None, xd_note |-> None, custom_fields |-> None]]

\* process_folder is not running
RunIdle ==
    /\ folder = NoFolder
    /\ out = Absent
    /\ pc = "idle"
    /\ pair_index = 0
    /\ data = <<>>
    /\ results = NoResult
    /\ row_pair = <<>>
    /\ row_index = 0
    /\ before = Absent

\* no extractor is being examined on its own
ExtractorIdle == file = File(FALSE, <<>>) /\ ret = None

-----------------------------------------------------------------------------
(* Python's str operations, on sequences of characters                     *)

Whitespace == {" ", "\n", "\t"}

RECURSIVE LStrip(_)
LStrip(s) ==
    IF s = <<>> THEN <<>>
    ELSE IF Head(s) \in Whitespace THEN LStrip(Tail(s)) ELSE s

RECURSIVE RStrip(_)
RStrip(s) ==
    IF s = <<>> THEN <<>>
    ELSE IF s[Len(s)] \in Whitespace THEN RStrip(SubSeq(s, 1, Len(s) - 1)) ELSE s

\* str.strip()
Strip(s) == RStrip(LStrip(s))

\* str.startswith(p)
StartsWith(s, p) == Len(s) >= Len(p) /\ SubSeq(s, 1, Len(p)) = p

\* str.endswith(p)
EndsWith(s, p) == Len(s) >= Len(p) /\ SubSeq(s, Len(s) - Len(p) + 1, Len(s)) = p

\* str.replace(old, ""): every non-overlapping occurrence of old, left to right
RECURSIVE ReplaceAll(_, _)
ReplaceAll(s, old) ==
    IF Len(s) < Len(old) THEN s
    ELSE IF StartsWith(s, old) THEN ReplaceAll(SubSeq(s, Len(old) + 1, Len(s)), old)
    ELSE <<Head(s)>> \o ReplaceAll(Tail(s), old)

UpperCase == <<"A", "B", "C", "D", "E", "F", "G", "H", "I", "J", "K", "L", "M",
               "N", "O", "P", "Q", "R", "S", "T", "U", "V", "W", "X", "Y", "Z">>
LowerCase == <<"a", "b", "c", "d", "e", "f", "g", "h", "i", "j", "k", "l", "m",
               "n", "o", "p", "q", "r", "s", "t", "u", "v", "w", "x", "y", "z">>

LowerChar(c) ==
    IF \E k \in 1..Len(UpperCase) : UpperCase[k] = c
    THEN LowerCase[CHOOSE k \in 1..Len(UpperCase) : UpperCase[k] = c]
    ELSE c

\* str.lower()
Lower(s) == [k \in 1..Len(s) |-> LowerChar(s[k])]

\* sub in s
Contains(s, sub) ==
    \E k \in 0..(Len(s) - Len(sub)) : SubSeq(s, k + 1, k + Len(sub)) = sub

\* sep.join(parts)
RECURSIVE Join(_, _)
Join(parts, sep) ==
    IF parts = <<>> THEN <<>>
    ELSE IF Len(parts) = 1 THEN parts[1]
    ELSE parts[1] \o sep \o Join(Tail(parts), sep)

-----------------------------------------------------------------------------
(* BeautifulSoup: find_all, find, get_text over a document                 *)

Elem(tag, depth, text) == [tag |-> tag, depth |-> depth, text |-> text]

\* j is a descendant of i: j comes after i and everything from i+1 to j lies deeper
IsDescendant(d, i, j) ==
    /\ i < j
    /\ \A k \in (i + 1)..j : d[k].depth > d[i].depth

\* the elements below i (i = 0: the whole document), in document order
Below(d, i) ==
    IF i = 0 THEN [k \in 1..Len(d) |-> k]
    ELSE LET n == Cardinality({j \in 1..Len(d) : IsDescendant(d, i, j)})
         IN  [k \in 1..n |-> i + k]

RECURSIVE FilterTags(_, _, _)
FilterTags(d, idx, tags) ==
    IF idx = <<>> THEN <<>>
    ELSE IF d[Head(idx)].tag \in tags
         THEN <<Head(idx)>> \o FilterTags(d, Tail(idx), tags)
         ELSE FilterTags(d, Tail(idx), tags)

\* x.find_all(tags): the descendants of x with one of the tags, in document order
find_all(d, i, tags) == FilterTags(d, Below(d, i), tags)

\* x.find(tag): the first such descendant, or 0 (None)
find(d, i, tag) ==
    LET found == find_all(d, i, {tag})
    IN  IF found = <<>> THEN 0 ELSE found[1]

RECURSIVE ConcatStripped(_, _)
ConcatStripped(d, idx) ==
    IF idx = <<>> THEN <<>>
    ELSE Strip(d[Head(idx)].text) \o ConcatStripped(d, Tail(idx))

\* x.get_text(strip=True): every string of x and below, each stripped, the
\* empty ones dropped, joined by ""
get_text(d, i) == ConcatStripped(d, <<i>> \o Below(d, i))

-----------------------------------------------------------------------------
(* extract_premise_and_requirement                                         *)

PremisePrefix == <<"P", "r", "e", "m", "i", "s", "e", ":">>
RequirementPrefix == <<"R", "e", "q", "u", "i", "r", "e", "m", "e", "n", "t", ":">>

\* as PremiseStep, a further Premise paragraph being appended to the premise
PremiseStepAppend(acc, text) ==
    IF StartsWith(text, PremisePrefix)
    THEN [acc EXCEPT !.premise = @ \o Strip(ReplaceAll(text, PremisePrefix))]
    ELSE IF StartsWith(text, RequirementPrefix)
    THEN [acc EXCEPT !.requirement =
              @ \o Strip(ReplaceAll(text, RequirementPrefix)) \o <<"\n">>]
    ELSE acc

\* the body of the inner loop: one paragraph, given (premise, requirement) so far
PremiseStep(acc, text) ==
    IF StartsWith(text, PremisePrefix)
    THEN [acc EXCEPT !.premise = Strip(ReplaceAll(text, PremisePrefix))]
    ELSE IF StartsWith(text, RequirementPrefix)
    THEN [acc EXCEPT !.requirement =
              @ \o Strip(ReplaceAll(text, RequirementPrefix)) \o <<"\n">>]
    ELSE acc

\* for p in paragraphs
RECURSIVE PremiseParagraphs(_, _, _)
PremiseParagraphs(d, ps, acc) ==
    IF ps = <<>> THEN acc
    ELSE PremiseParagraphs(d, Tail(ps), PremiseStep(acc, get_text(d, Head(ps))))

\* for entry in soup.find_all("entry")
RECURSIVE PremiseEntries(_, _, _)
PremiseEntries(d, es, acc) ==
    IF es = <<>> THEN acc
    ELSE PremiseEntries(d, Tail(es),
             PremiseParagraphs(d, find_all(d, Head(es), {"p"}), acc))

PremiseFormat(premise, requirement) ==
    <<"P", "r", "e", "m", "i", "s", "e", ":", "\n">> \o premise
    \o <<"\n", "R", "e", "q", "u", "i", "r", "e", "m", "e", "n", "t", ":", "\n">>
    \o Strip(requirement)

\* an unreadable file: the except branch returns ""
extract_premise_and_requirement(f) ==
    IF ~f.readable THEN <<>>
    ELSE LET acc == PremiseEntries(f.doc, find_all(f.doc, 0, {"entry"}),
                                   [premise |-> <<>>, requirement |-> <<>>])
         IN  PremiseFormat(acc.premise, acc.requirement)

-----------------------------------------------------------------------------
(* Bounded sets of documents                                               *)

\* every document of exactly n elements whose (tag, text) come from kinds
RECURSIVE DocsOfLen(_, _)
DocsOfLen(kinds, n) ==
    IF n = 0 THEN {<<>>}
    ELSE UNION {
           {Append(d, Elem(k.tag, dep, k.text)) :
                k \in kinds,
                dep \in 0..(IF Len(d) = 0 THEN 0 ELSE d[Len(d)].depth + 1)}
           : d \in DocsOfLen(kinds, n - 1)}

Docs(kinds, max) == UNION {DocsOfLen(kinds, n) : n \in 0..max}

Kind(tag, text) == [tag |-> tag, text |-> text]

-----------------------------------------------------------------------------
(* Specification: extract_premise_and_requirement on every bounded document *)

MaxNodesPremise == 3

TxPremA == <<"P", "r", "e", "m", "i", "s", "e", ":", " ", "A">>
TxPremB == <<" ", "P", "r", "e", "m", "i", "s", "e", ":", "B", "\n">>
TxReqC == <<"R", "e", "q", "u", "i", "r", "e", "m", "e", "n", "t", ":", " ", "C">>
TxReqTwice == <<"R", "e", "q", "u", "i", "r", "e", "m", "e", "n", "t", ":", "D", " ",
                "R", "e", "q", "u", "i", "r", "e", "m", "e", "n", "t", ":", "E">>
TxOther == <<"N", "B">>

PremiseKinds ==
    {Kind("entry", <<>>), Kind("p", TxPremA), Kind("p", TxPremB),
     Kind("p", TxReqC), Kind("p", TxReqTwice), Kind("p", TxOther)}

\* one table cell holding "Premise: A", "Requirement: C", "NB", "Premise:B",
\* "Requirement:D Requirement:E"
PremiseExample ==
    <<Elem("entry", 0, <<>>), Elem("p", 1, TxPremA), Elem("p", 1, TxReqC),
      Elem("p", 1, TxOther), Elem("p", 1, TxPremB), Elem("p", 1, TxReqTwice)>>

InitPremise ==
    /\ file \in {File(TRUE, d) : d \in Docs(PremiseKinds, MaxNodesPremise)}
                 \cup {File(TRUE, PremiseExample), File(FALSE, <<>>)}
    /\ fn = "none"
    /\ ret = None
    /\ listing = <<>>
    /\ matched_files = <<>>
    /\ RunIdle

CallPremise ==
    /\ fn = "none"
    /\ fn' = "extract_premise_and_requirement"
    /\ ret' = extract_premise_and_requirement(file)
    /\ UNCHANGED <<file, listing, matched_files, runVars>>

NextPremise == CallPremise

SpecPremise == InitPremise /\ [][NextPremise]_vars


-----------------------------------------------------------------------------
(* Properties of extract_premise_and_requirement                           *)

Called(name) == fn = name /\ file.readable

\* (entry, paragraph) with the paragraph below the entry
PremiseVisitSet(d) ==
    {v \in (1..Len(d)) \X (1..Len(d)) :
        /\ d[v[1]].tag = "entry"
        /\ d[v[2]].tag = "p"
        /\ IsDescendant(d, v[1], v[2])}

\* entries in document order, and below each entry its paragraphs in document order
VisitBefore(a, b) == a[1] < b[1] \/ (a[1] = b[1] /\ a[2] < b[2])

RECURSIVE SortVisits(_)
SortVisits(S) ==
    IF S = {} THEN <<>>
    ELSE LET m == CHOOSE x \in S : \A y \in S : y = x \/ VisitBefore(x, y)
         IN  <<m>> \o SortVisits(S \ {m})

RECURSIVE SortNat(_)
SortNat(S) ==
    IF S = {} THEN <<>>
    ELSE LET m == CHOOSE x \in S : \A y \in S : x <= y
         IN  <<m>> \o SortNat(S \ {m})

ValueAfter(text, prefix) == Strip(ReplaceAll(text, prefix))

RECURSIVE RequirementLines(_, _)
RequirementLines(d, ps) ==
    IF ps = <<>> THEN <<>>
    ELSE ValueAfter(get_text(d, Head(ps)), RequirementPrefix) \o <<"\n">>
         \o RequirementLines(d, Tail(ps))

\* the result the claim describes, for the paragraphs ps taken in this order
PremiseExpected(d, ps) ==
    LET prem == {k \in 1..Len(ps) : StartsWith(get_text(d, ps[k]), PremisePrefix)}
        reqs == {k \in 1..Len(ps) : StartsWith(get_text(d, ps[k]), RequirementPrefix)}
        last == CHOOSE k \in prem : \A j \in prem : j <= k
        P    == IF prem = {} THEN <<>>
                ELSE ValueAfter(get_text(d, ps[last]), PremisePrefix)
        rs   == SortNat(reqs)
        R    == Strip(RequirementLines(d, [k \in 1..Len(rs) |-> ps[rs[k]]]))
    IN  <<"P", "r", "e", "m", "i", "s", "e", ":", "\n">> \o P
        \o <<"\n", "R", "e", "q", "u", "i", "r", "e", "m", "e", "n", "t", ":", "\n">>
        \o R

\* the paragraphs in the order of the scan: one visit per (entry, paragraph below it)
VisitedParagraphs(d) ==
    LET vs == SortVisits(PremiseVisitSet(d))
    IN  [k \in 1..Len(vs) |-> vs[k][2]]

\* the paragraphs that lie in some entry, each once, in document order
EntryParagraphs(d) ==
    SortNat({p \in 1..Len(d) : \E e \in 1..Len(d) : <<e, p>> \in PremiseVisitSet(d)})

NoNestedEntry(d) ==
    \A e1, e2 \in 1..Len(d) :
        d[e1].tag = "entry" /\ d[e2].tag = "entry" => ~IsDescendant(d, e1, e2)

RemainderAfter(text, prefix) == Strip(SubSeq(text, Len(prefix) + 1, Len(text)))

RECURSIVE RemainderLines(_, _)
RemainderLines(d, ps) ==
    IF ps = <<>> THEN <<>>
    ELSE RemainderAfter(get_text(d, Head(ps)), RequirementPrefix) \o <<"\n">>
         \o RemainderLines(d, Tail(ps))

PremiseExpectedRemainder(d, ps) ==
    LET prem == {k \in 1..Len(ps) : StartsWith(get_text(d, ps[k]), PremisePrefix)}
        reqs == {k \in 1..Len(ps) : StartsWith(get_text(d, ps[k]), RequirementPrefix)}
        last == CHOOSE k \in prem : \A j \in prem : j <= k
        P    == IF prem = {} THEN <<>>
                ELSE RemainderAfter(get_text(d, ps[last]), PremisePrefix)
        rs   == SortNat(reqs)
        R    == Strip(RemainderLines(d, [k \in 1..Len(rs) |-> ps[rs[k]]]))
    IN  <<"P", "r", "e", "m", "i", "s", "e", ":", "\n">> \o P
        \o <<"\n", "R", "e", "q", "u", "i", "r", "e", "m", "e", "n", "t", ":", "\n">>
        \o R

\* C8: a paragraph "Requirement:" + s contributes exactly s stripped, and a
\* paragraph "Premise:" + s sets the premise to exactly s stripped: only the
\* leading prefix is removed, also when s holds the prefix text again.
C8_OnlyLeadingPrefixStripped ==
    Called("extract_premise_and_requirement") =>
        ret = PremiseExpectedRemainder(file.doc, VisitedParagraphs(file.doc))

-----------------------------------------------------------------------------
(* extract_xd_note                                                         *)

XdMarker == <<"x", "d", " ", "n", "o", "t", "e">>

\* as XdSiblingStep, without the test on seen_notes
XdSiblingStepNoDedup(acc, note_text) ==
    IF note_text # <<>>
    THEN [xd_notes |-> Append(acc.xd_notes, note_text),
          seen_notes |-> acc.seen_notes \cup {note_text}]
    ELSE acc

\* the body of the innermost loop: one li or p of the entry
XdSiblingStep(acc, note_text) ==
    IF note_text # <<>> /\ note_text \notin acc.seen_notes
    THEN [xd_notes |-> Append(acc.xd_notes, note_text),
          seen_notes |-> acc.seen_notes \cup {note_text}]
    ELSE acc

\* for sibling in entry.find_all(["li", "p"])
RECURSIVE XdSiblings(_, _, _)
XdSiblings(d, ss, acc) ==
    IF ss = <<>> THEN acc
    ELSE XdSiblings(d, Tail(ss), XdSiblingStep(acc, get_text(d, Head(ss))))

\* for p in entry.find_all("p")
RECURSIVE XdParagraphs(_, _, _, _)
XdParagraphs(d, e, ps, acc) ==
    IF ps = <<>> THEN acc
    ELSE XdParagraphs(d, e, Tail(ps),
             IF Lower(get_text(d, Head(ps))) = XdMarker
             THEN XdSiblings(d, find_all(d, e, {"li", "p"}), acc)
             ELSE acc)

\* for entry in soup.find_all("entry")
RECURSIVE XdEntries(_, _, _)
XdEntries(d, es, acc) ==
    IF es = <<>> THEN acc
    ELSE XdEntries(d, Tail(es),
             XdParagraphs(d, Head(es), find_all(d, Head(es), {"p"}), acc))

\* the list xd_notes when the loops end
XdNotes(d) ==
    XdEntries(d, find_all(d, 0, {"entry"}),
              [xd_notes |-> <<>>, seen_notes |-> {}]).xd_notes

\* an unreadable file: the except branch returns ""
extract_xd_note(f) ==
    IF ~f.readable THEN <<>> ELSE Join(XdNotes(f.doc), <<"\n">>)

-----------------------------------------------------------------------------
(* Specification: extract_xd_note on every bounded document                *)

MaxNodesXd == 3

TxMarkerUpper == <<" ", "X", "D", " ", "N", "o", "t", "e">>
TxX == <<"x">>
TxY == <<"y", " ">>
TxZ == <<"z">>
TxBlank == <<" ">>

XdKinds ==
    {Kind("entry", <<>>), Kind("p", XdMarker), Kind("p", TxMarkerUpper),
     Kind("li", TxX), Kind("p", TxX), Kind("li", TxBlank)}

\* a cell with the marker and the notes x, y, x, z; a cell without a marker
XdExample ==
    <<Elem("entry", 0, <<>>), Elem("p", 1, XdMarker), Elem("li", 1, TxX),
      Elem("li", 1, TxY), Elem("p", 1, TxX), Elem("li", 1, TxZ),
      Elem("entry", 0, <<>>), Elem("li", 1, <<"w">>)>>

InitXd ==
    /\ file \in {File(TRUE, d) : d \in Docs(XdKinds, MaxNodesXd)}
                 \cup {File(TRUE, XdExample), File(FALSE, <<>>)}
    /\ fn = "none"
    /\ ret = None
    /\ listing = <<>>
    /\ matched_files = <<>>
    /\ RunIdle

CallXd ==
    /\ fn = "none"
    /\ fn' = "extract_xd_note"
    /\ ret' = extract_xd_note(file)
    /\ UNCHANGED <<file, listing, matched_files, runVars>>

NextXd == CallXd

SpecXd == InitXd /\ [][NextXd]_vars

-----------------------------------------------------------------------------
(* Properties of extract_xd_note                                           *)

\* the entries with a paragraph whose text, lower-cased, is "xd note"
MarkedEntries(d) ==
    {e \in 1..Len(d) :
        /\ d[e].tag = "entry"
        /\ \E p \in 1..Len(d) :
               /\ IsDescendant(d, e, p)
               /\ d[p].tag = "p"
               /\ Lower(get_text(d, p)) = XdMarker}

\* (entry, li or p below it) for the marked entries
XdOccurrences(d) ==
    {v \in MarkedEntries(d) \X (1..Len(d)) :
        /\ IsDescendant(d, v[1], v[2])
        /\ d[v[2]].tag \in {"li", "p"}
        /\ get_text(d, v[2]) # <<>>}

\* the place of the first occurrence of text t, in the order of the scan
FirstOccurrence(d, t) ==
    CHOOSE v \in XdOccurrences(d) :
        /\ get_text(d, v[2]) = t
        /\ \A w \in XdOccurrences(d) :
               get_text(d, w[2]) = t => (w = v \/ VisitBefore(v, w))

\* C5: extract_xd_note returns the newline-join of a list that holds exactly the
\* non-empty texts of the li and p elements of the entries having an "xd note"
\* paragraph (case-insensitively; the marker paragraph's own text included),
\* holds no text twice, and keeps them in the order of their first occurrence.
C5_XdNotesDeduplicatedInOrder ==
    Called("extract_xd_note") =>
        LET d == file.doc
            L == XdNotes(d)
        IN  /\ ret = Join(L, <<"\n">>)
            /\ {L[k] : k \in 1..Len(L)}
                   = {get_text(d, v[2]) : v \in XdOccurrences(d)}
            /\ \A i, j \in 1..Len(L) : i # j => L[i] # L[j]
            /\ \A i, j \in 1..Len(L) :
                   i < j => VisitBefore(FirstOccurrence(d, L[i]), FirstOccurrence(d, L[j]))

\* XdExample: notes x, y, x, z after the marker give the marker line, x, y, z
C5_Witness ==
    /\ Called("extract_xd_note")
    /\ file.doc = XdExample
    /\ ret = <<"x", "d", " ", "n", "o", "t", "e", "\n", "x", "\n", "y", "\n", "z">>


-----------------------------------------------------------------------------
(* extract_section_content and parse_testcase_dita                         *)

UnknownTitle == <<"U", "n", "k", "n", "o", "w", "n", " ", "T", "i", "t", "l", "e">>
ExpectedResultsName == <<"E", "x", "p", "e", "c", "t", "e", "d", " ",
                         "R", "e", "s", "u", "l", "t", "s">>
ProceduresName == <<"P", "r", "o", "c", "e", "d", "u", "r", "e", "s">>
NotesName == <<"N", "o", "t", "e", "s">>

\* for dlentry in soup.find_all("dlentry"): the dd texts of the matching entries
RECURSIVE SectionEntries(_, _, _)
SectionEntries(d, es, section_name) ==
    IF es = <<>> THEN <<>>
    ELSE LET dt == find(d, Head(es), "dt")
             dd == find(d, Head(es), "dd")
         IN  IF /\ dt # 0
                /\ dd # 0
                /\ Contains(Lower(get_text(d, dt)), Lower(section_name))
             THEN <<get_text(d, dd)>> \o SectionEntries(d, Tail(es), section_name)
             ELSE SectionEntries(d, Tail(es), section_name)

\* as SectionEntries, matching the section name case-sensitively
RECURSIVE SectionEntriesExactCase(_, _, _)
SectionEntriesExactCase(d, es, section_name) ==
    IF es = <<>> THEN <<>>
    ELSE LET dt == find(d, Head(es), "dt")
             dd == find(d, Head(es), "dd")
         IN  IF dt # 0 /\ dd # 0 /\ Contains(get_text(d, dt), section_name)
             THEN <<get_text(d, dd)>> \o SectionEntriesExactCase(d, Tail(es), section_name)
             ELSE SectionEntriesExactCase(d, Tail(es), section_name)

SectionContentExactCase(d, section_name) ==
    Join(SectionEntriesExactCase(d, find_all(d, 0, {"dlentry"}), section_name), <<"\n">>)

extract_section_content(d, section_name) ==
    Join(SectionEntries(d, find_all(d, 0, {"dlentry"}), section_name), <<"\n">>)

\* as StepRecord, the sections being looked up below the entry e only
StepRecordLocal(d, e, dt) ==
    LET below == SubSeq(d, e, e + Len(Below(d, e)))
    IN  [fields |->
          [Action |-> <<"*">> \o get_text(d, dt) \o <<"*", "\n">>
                      \o extract_section_content(below, ProceduresName),
           Data |-> <<"*", "N", "o", "t", "e", "s", ":", "*", "\n">>
                    \o extract_section_content(below, NotesName),
           Expected_Result |-> extract_section_content(below, ExpectedResultsName)]]

\* the record appended for the dlentry e whose dt is the element dt
StepRecord(d, e, dt) ==
    [fields |->
      [Action |-> <<"*">> \o get_text(d, dt) \o <<"*", "\n">>
                  \o extract_section_content(d, ProceduresName),
       Data |-> <<"*", "N", "o", "t", "e", "s", ":", "*", "\n">>
                \o extract_section_content(d, NotesName),
       Expected_Result |-> extract_section_content(d, ExpectedResultsName)]]

\* for dlentry in soup.find_all("dlentry")
RECURSIVE CustomFields(_, _)
CustomFields(d, es) ==
    IF es = <<>> THEN <<>>
    ELSE LET dt == find(d, Head(es), "dt")
         IN  IF dt # 0 /\ StartsWith(get_text(d, dt), <<"R">>)
             THEN <<StepRecord(d, Head(es), dt)>> \o CustomFields(d, Tail(es))
             ELSE CustomFields(d, Tail(es))

\* title_tag.get_text(strip=True) if title_tag else "Unknown Title"
TitleOf(d) ==
    LET title_tag == find(d, 0, "title")
    IN  IF title_tag # 0 THEN get_text(d, title_tag) ELSE UnknownTitle

\* (title, xd_note, custom_fields), or (None, None, None) from the except branch
parse_testcase_dita(f) ==
    IF ~f.readable
    THEN [title |-> None, xd_note |-> None, custom_fields |-> None]
    ELSE [title |-> TitleOf(f.doc),
          xd_note |-> extract_xd_note(f),
          custom_fields |-> CustomFields(f.doc, find_all(f.doc, 0, {"dlentry"}))]

-----------------------------------------------------------------------------
(* Specification: parse_testcase_dita on every bounded testcase document   *)

MaxEntries == 2

Digits == <<"1", "2", "3", "4", "5", "6", "7", "8", "9">>

TxR1 == <<"R", "1">>
TxProcedures == <<"P", "r", "o", "c", "e", "d", "u", "r", "e", "s", ":">>
TxReleaseNotes == <<" ", "R", "e", "l", "e", "a", "s", "e", " ", "N", "O", "T", "E", "S">>
TxExpectedLower == <<"e", "x", "p", "e", "c", "t", "e", "d", " ",
                     "r", "e", "s", "u", "l", "t", "s">>

DtChoices == {TxR1, TxProcedures, TxReleaseNotes, TxExpectedLower}

\* a dlentry at depth dep, with a dt of text t (none when t = None) and a dd
\* (when has_dd) whose text is the number n
DlEntry(dep, t, has_dd, n) ==
    <<Elem("dlentry", dep, <<>>)>>
    \o (IF t # None THEN <<Elem("dt", dep + 1, t)>> ELSE <<>>)
    \o (IF has_dd THEN <<Elem("dd", dep + 1, <<Digits[n]>>)>> ELSE <<>>)

\* every document of exactly n dlentry elements, each at the top or inside
\* the dd that ends the document so far
RECURSIVE DlDocsOfLen(_)
DlDocsOfLen(n) ==
    IF n = 0 THEN {<<>>}
    ELSE UNION {
           {d \o DlEntry(dep, t, has_dd, n) :
                t \in DtChoices \cup {None},
                has_dd \in BOOLEAN,
                dep \in {0} \cup (IF Len(d) > 0 /\ d[Len(d)].tag = "dd"
                                  THEN {d[Len(d)].depth + 1} ELSE {})}
           : d \in DlDocsOfLen(n - 1)}

DlDocs(max) == UNION {DlDocsOfLen(n) : n \in 0..max}

\* a titled document with the entries R1, Expected Results, Procedures, Notes,
\* R2 and a second Procedures entry, and an "xd note" cell
TestcaseExample ==
    <<Elem("title", 0, <<" ", "T", "C", " ">>)>>
    \o DlEntry(0, TxR1, TRUE, 1)
    \o DlEntry(0, ExpectedResultsName, TRUE, 2)
    \o DlEntry(0, ProceduresName, TRUE, 3)
    \o DlEntry(0, NotesName, TRUE, 4)
    \o DlEntry(0, <<"R", "2">>, FALSE, 5)
    \o DlEntry(0, TxProcedures, TRUE, 6)
    \o <<Elem("entry", 0, <<>>), Elem("p", 1, TxMarkerUpper), Elem("li", 1, TxX)>>

InitTestcase ==
    /\ file \in {File(TRUE, d) : d \in DlDocs(MaxEntries)}
                 \cup {File(TRUE, TestcaseExample), File(FALSE, <<>>)}
    /\ fn = "none"
    /\ ret = None
    /\ listing = <<>>
    /\ matched_files = <<>>
    /\ RunIdle

CallTestcase ==
    /\ fn = "none"
    /\ fn' = "parse_testcase_dita"
    /\ ret' = parse_testcase_dita(file)
    /\ UNCHANGED <<file, listing, matched_files, runVars>>

NextTestcase == CallTestcase

SpecTestcase == InitTestcase /\ [][NextTestcase]_vars


-----------------------------------------------------------------------------
(* Properties of parse_testcase_dita                                       *)

\* the first element with this tag below e, or 0
FirstBelow(d, e, tag) ==
    LET S == {j \in 1..Len(d) : IsDescendant(d, e, j) /\ d[j].tag = tag}
    IN  IF S = {} THEN 0 ELSE CHOOSE j \in S : \A k \in S : j <= k

DlEntrySet(d) == {e \in 1..Len(d) : d[e].tag = "dlentry"}

\* the term of a definition-list entry: the text of its first dt
HasTerm(d, e) == FirstBelow(d, e, "dt") # 0
Term(d, e) == get_text(d, FirstBelow(d, e, "dt"))

\* the entries whose term starts with "R"
RequirementEntries(d) ==
    {e \in DlEntrySet(d) : HasTerm(d, e) /\ StartsWith(Term(d, e), <<"R">>)}

\* the newline-joined descriptions of the entries, having both a term and a
\* description, whose term contains name case-insensitively
SectionText(d, name) ==
    LET es == SortNat({e \in DlEntrySet(d) :
                         /\ HasTerm(d, e)
                         /\ FirstBelow(d, e, "dd") # 0
                         /\ Contains(Lower(Term(d, e)), Lower(name))})
    IN  Join([k \in 1..Len(es) |-> get_text(d, FirstBelow(d, es[k], "dd"))], <<"\n">>)

\* C6: parse_testcase_dita returns one step record for each definition-list entry
\* whose term starts with "R", in document order, and none for any other entry;
\* the record for term t has Action "*" + t + "*\n" + procedures, Data
\* "*Notes:*\n" + notes and Expected Result the expected results, each being the
\* newline-joined descriptions of the entries whose term contains "Procedures",
\* "Notes" or "Expected Results" case-insensitively.
C6_OneStepRecordPerRequirementEntry ==
    Called("parse_testcase_dita") =>
        LET d  == file.doc
            cf == ret.custom_fields
            rs == SortNat(RequirementEntries(d))
        IN  /\ Len(cf) = Len(rs)
            /\ \A k \in 1..Len(rs) :
                   /\ cf[k].fields.Action =
                          <<"*">> \o Term(d, rs[k]) \o <<"*", "\n">>
                          \o SectionText(d, ProceduresName)
                   /\ cf[k].fields.Data =
                          <<"*", "N", "o", "t", "e", "s", ":", "*", "\n">>
                          \o SectionText(d, NotesName)
                   /\ cf[k].fields.Expected_Result = SectionText(d, ExpectedResultsName)

\* TestcaseExample: records for R1 and R2 only, with procedures 3 and 6, notes 4
\* and expected results 2
C6_Witness ==
    /\ Called("parse_testcase_dita")
    /\ file.doc = TestcaseExample
    /\ ret.custom_fields =
         <<[fields |-> [Action |-> <<"*", "R", "1", "*", "\n", "3", "\n", "6">>,
                        Data |-> <<"*", "N", "o", "t", "e", "s", ":", "*", "\n", "4">>,
                        Expected_Result |-> <<"2">>]],
           [fields |-> [Action |-> <<"*", "R", "2", "*", "\n", "3", "\n", "6">>,
                        Data |-> <<"*", "N", "o", "t", "e", "s", ":", "*", "\n", "4">>,
                        Expected_Result |-> <<"2">>]]>>

\* parse_testcase_dita with the three section lookups made once, before the loop
RECURSIVE HoistedFields(_, _, _, _, _)
HoistedFields(d, es, procedures, notes, expected_results) ==
    IF es = <<>> THEN <<>>
    ELSE LET dt == find(d, Head(es), "dt")
             rest == HoistedFields(d, Tail(es), procedures, notes, expected_results)
         IN  IF dt # 0 /\ StartsWith(get_text(d, dt), <<"R">>)
             THEN <<[fields |->
                      [Action |-> <<"*">> \o get_text(d, dt) \o <<"*", "\n">> \o procedures,
                       Data |-> <<"*", "N", "o", "t", "e", "s", ":", "*", "\n">> \o notes,
                       Expected_Result |-> expected_results]]>> \o rest
             ELSE rest

ParseTestcaseHoisted(f) ==
    IF ~f.readable
    THEN [title |-> None, xd_note |-> None, custom_fields |-> None]
    ELSE [title |-> TitleOf(f.doc),
          xd_note |-> extract_xd_note(f),
          custom_fields |->
              HoistedFields(f.doc, find_all(f.doc, 0, {"dlentry"}),
                            extract_section_content(f.doc, ProceduresName),
                            extract_section_content(f.doc, NotesName),
                            extract_section_content(f.doc, ExpectedResultsName))]

\* an Action field without its leading "*" + term + "*\n"
ActionRest(action, term) == SubSeq(action, Len(term) + 4, Len(action))

\* C9: all step records of one document have equal Data and equal Expected
\* Result, and their Actions differ only in the term; and the version with the
\* lookups hoisted out of the loop returns the same (title, notes, records).
C9_SectionLookupsHoistable ==
    Called("parse_testcase_dita") =>
        LET d  == file.doc
            cf == ret.custom_fields
            rs == SortNat(RequirementEntries(d))
        IN  /\ Len(cf) = Len(rs)
            /\ \A i, j \in 1..Len(cf) :
                   /\ cf[i].fields.Data = cf[j].fields.Data
                   /\ cf[i].fields.Expected_Result = cf[j].fields.Expected_Result
                   /\ ActionRest(cf[i].fields.Action, Term(d, rs[i]))
                          = ActionRest(cf[j].fields.Action, Term(d, rs[j]))
            /\ ret = ParseTestcaseHoisted(file)

\* two records with different terms and non-empty notes
C9_Witness ==
    /\ Called("parse_testcase_dita")
    /\ file.doc # TestcaseExample
    /\ Len(ret.custom_fields) = 2
    /\ ret.custom_fields[1].fields.Action # ret.custom_fields[2].fields.Action
    /\ ret.custom_fields[1].fields.Data
           = <<"*", "N", "o", "t", "e", "s", ":", "*", "\n", "1">>
    /\ ret.custom_fields[2].fields.Data = ret.custom_fields[1].fields.Data


-----------------------------------------------------------------------------
(* process_folder: pairing the files (lines 161-167)                       *)

DitaExt == <<".", "d", "i", "t", "a">>
TestcaseSuffix == <<"_", "t", "e", "s", "t", "c", "a", "s", "e", ".", "d", "i", "t", "a">>

InSeq(x, seq) == \E n \in 1..Len(seq) : seq[n] = x

\* s.rsplit(sep, 1)[0]: what stands before the last occurrence of sep, or s
RSplitHead(s, sep) ==
    LET at == {n \in 1..(Len(s) - Len(sep) + 1) : SubSeq(s, n, n + Len(sep) - 1) = sep}
    IN  IF at = {} THEN s
        ELSE SubSeq(s, 1, (CHOOSE n \in at : \A m \in at : m <= n) - 1)

\* dict[key] = value: a new key goes to the end, a known key keeps its place
DictSet(dict, key, value) ==
    IF \E n \in 1..Len(dict) : dict[n][1] = key
    THEN [n \in 1..Len(dict) |-> IF dict[n][1] = key THEN <<key, value>> ELSE dict[n]]
    ELSE Append(dict, <<key, value>>)

\* {f.rsplit("_testcase.dita", 1)[0]: f for f in files if f.endswith("_testcase.dita")}
RECURSIVE BaseFiles(_, _)
BaseFiles(files, dict) ==
    IF files = <<>> THEN dict
    ELSE BaseFiles(Tail(files),
             IF EndsWith(Head(files), TestcaseSuffix)
             THEN DictSet(dict, RSplitHead(Head(files), TestcaseSuffix), Head(files))
             ELSE dict)

\* as MatchedFrom, without the test that the base file is listed
RECURSIVE MatchedFromUnchecked(_, _)
MatchedFromUnchecked(items, files) ==
    IF items = <<>> THEN <<>>
    ELSE <<<<Head(items)[1] \o DitaExt, Head(items)[2]>>>>
         \o MatchedFromUnchecked(Tail(items), files)

\* [(base_name + ".dita", testcase_file) for ... if base_name + ".dita" in files]
RECURSIVE MatchedFrom(_, _)
MatchedFrom(items, files) ==
    IF items = <<>> THEN <<>>
    ELSE IF InSeq(Head(items)[1] \o DitaExt, files)
         THEN <<<<Head(items)[1] \o DitaExt, Head(items)[2]>>>>
              \o MatchedFrom(Tail(items), files)
         ELSE MatchedFrom(Tail(items), files)

DitaFiles(names) == SelectSeq(names, LAMBDA f : EndsWith(f, DitaExt))

MatchedFilesUnchecked(names) ==
    MatchedFromUnchecked(BaseFiles(DitaFiles(names), <<>>), DitaFiles(names))

MatchedFiles(names) ==
    MatchedFrom(BaseFiles(DitaFiles(names), <<>>), DitaFiles(names))

-----------------------------------------------------------------------------
(* Specification: the pairing on every bounded listing                     *)

MaxFiles == 4

FooDita == <<"f", "o", "o", ".", "d", "i", "t", "a">>
FooTestcase == <<"f", "o", "o", "_", "t", "e", "s", "t", "c", "a", "s", "e", ".", "d", "i", "t", "a">>
BarTestcase == <<"b", "a", "r", "_", "t", "e", "s", "t", "c", "a", "s", "e", ".", "d", "i", "t", "a">>
BarUpper == <<"b", "a", "r", ".", "D", "I", "T", "A">>
FooTestcaseTestcase ==
    <<"f", "o", "o", "_", "t", "e", "s", "t", "c", "a", "s", "e",
      "_", "t", "e", "s", "t", "c", "a", "s", "e", ".", "d", "i", "t", "a">>
FooTestcaseTxt == <<"f", "o", "o", "_", "t", "e", "s", "t", "c", "a", "s", "e", ".", "t", "x", "t">>

PairNames ==
    {FooDita, FooTestcase, BarTestcase, BarUpper, DitaExt, TestcaseSuffix,
     FooTestcaseTestcase, FooTestcaseTxt}

\* the listings of exactly n different names
RECURSIVE ListingsOfLen(_)
ListingsOfLen(n) ==
    IF n = 0 THEN {<<>>}
    ELSE UNION {
           {Append(l, x) : x \in PairNames \ {l[m] : m \in 1..Len(l)}}
           : l \in ListingsOfLen(n - 1)}

InitPair ==
    /\ listing \in UNION {ListingsOfLen(n) : n \in 0..MaxFiles}
    /\ matched_files = <<>>
    /\ fn = "none"
    /\ ExtractorIdle
    /\ RunIdle

CallPair ==
    /\ fn = "none"
    /\ fn' = "pairing"
    /\ matched_files' = MatchedFiles(listing)
    /\ UNCHANGED <<listing, extractorVars, runVars>>

NextPair == CallPair

SpecPair == InitPair /\ [][NextPair]_vars

Range(seq) == {seq[n] : n \in 1..Len(seq)}

\* C1: the pairs built are exactly the (b + ".dita", b + "_testcase.dita") with
\* both names in the listing; a testcase file without its base file gives no
\* pair, no pair names an unlisted file, no testcase file is in two pairs.
C1_PairsExactlyBothListed ==
    fn = "pairing" =>
        /\ Range(matched_files) =
              {pr \in Range(listing) \X Range(listing) :
                  \E n \in 0..Len(pr[1]) :
                      /\ pr[1] = SubSeq(pr[1], 1, n) \o DitaExt
                      /\ pr[2] = SubSeq(pr[1], 1, n) \o TestcaseSuffix}
        /\ \A m, n \in 1..Len(matched_files) :
                m # n => matched_files[m][2] # matched_files[n][2]

\* foo.dita, foo_testcase.dita and bar_testcase.dita listed, bar.dita not:
\* the one pair (foo.dita, foo_testcase.dita)
C1_Witness ==
    /\ fn = "pairing"
    /\ Range(listing) = {FooDita, FooTestcase, BarTestcase}
    /\ matched_files = <<<<FooDita, FooTestcase>>>>


-----------------------------------------------------------------------------
(* parse_dita and json.dumps                                               *)

PremiseHeader == <<"p", "r", "e", "m", "i", "s", "e">>
RequirementsHeader == <<"r", "e", "q", "u", "i", "r", "e", "m", "e", "n", "t", "s">>

\* for dlentry in soup.find_all("dlentry"), given (description, premise, requirements)
RECURSIVE DitaEntries(_, _, _)
DitaEntries(d, es, acc) ==
    IF es = <<>> THEN acc
    ELSE LET dt == find(d, Head(es), "dt")
             dd == find(d, Head(es), "dd")
         IN  DitaEntries(d, Tail(es),
               IF dt = 0 \/ dd = 0 THEN acc
               ELSE LET header == Lower(get_text(d, dt))
                        body == get_text(d, dd)
                    IN  IF header = PremiseHeader
                        THEN [acc EXCEPT !.premise = body]
                        ELSE IF header = RequirementsHeader
                        THEN [acc EXCEPT !.requirements = body]
                        ELSE [acc EXCEPT !.description =
                                 Append(@, get_text(d, dt) \o <<":", "\n">> \o body)])

\* as parse_dita, an unreadable file giving the defaults of an empty document
ParseDitaDefaultsOnError(f) ==
    LET d == IF f.readable THEN f.doc ELSE <<>>
        acc == DitaEntries(d, find_all(d, 0, {"dlentry"}),
                           [description |-> <<>>, premise |-> <<>>, requirements |-> <<>>])
    IN  [title |-> TitleOf(d),
         description |-> Join(acc.description, <<"\n", "\n">>),
         premise |-> acc.premise,
         requirements |-> acc.requirements]

\* (title, description, premise, requirements), or four None from the except branch
parse_dita(f) ==
    IF ~f.readable
    THEN [title |-> None, description |-> None, premise |-> None, requirements |-> None]
    ELSE LET acc == DitaEntries(f.doc, find_all(f.doc, 0, {"dlentry"}),
                        [description |-> <<>>, premise |-> <<>>, requirements |-> <<>>])
         IN  [title |-> TitleOf(f.doc),
              description |-> Join(acc.description, <<"\n", "\n">>),
              premise |-> acc.premise,
              requirements |-> acc.requirements]

JsonEscapeChar(c) ==
    CASE c = "\"" -> <<"\\", "\"">>
      [] c = "\\" -> <<"\\", "\\">>
      [] c = "\n" -> <<"\\", "n">>
      [] c = "\t" -> <<"\\", "t">>
      [] OTHER -> <<c>>

RECURSIVE JsonEscape(_)
JsonEscape(text) ==
    IF text = <<>> THEN <<>> ELSE JsonEscapeChar(Head(text)) \o JsonEscape(Tail(text))

JsonString(text) == <<"\"">> \o JsonEscape(text) \o <<"\"">>

JsonStepRecord(r) ==
    <<"{", "\"", "f", "i", "e", "l", "d", "s", "\"", ":", " ",
      "{", "\"", "A", "c", "t", "i", "o", "n", "\"", ":", " ">>
    \o JsonString(r.fields.Action)
    \o <<",", " ", "\"", "D", "a", "t", "a", "\"", ":", " ">>
    \o JsonString(r.fields.Data)
    \o <<",", " ", "\"", "E", "x", "p", "e", "c", "t", "e", "d", " ",
          "R", "e", "s", "u", "l", "t", "\"", ":", " ">>
    \o JsonString(r.fields.Expected_Result)
    \o <<"}", "}">>

\* json.dumps(custom_fields), custom_fields being a list of step records
json_dumps(custom_fields) ==
    <<"[">>
    \o Join([n \in 1..Len(custom_fields) |-> JsonStepRecord(custom_fields[n])],
             <<",", " ">>)
    \o <<"]">>

-----------------------------------------------------------------------------
(* process_folder                                                          *)

HeaderRow ==
    << <<"S", "u", "m", "m", "a", "r", "y">>,
       <<"D", "e", "s", "c", "r", "i", "p", "t", "i", "o", "n">>,
       <<"C", "u", "s", "t", "o", "m", " ", "f", "i", "e", "l", "d", " ",
         "(", "P", "r", "e", "m", "i", "s", "e", ")">>,
       <<"C", "u", "s", "t", "o", "m", " ", "F", "i", "e", "l", "d", " ",
         "M", "a", "n", "u", "a", "l", " ", "T", "e", "s", "t", " ",
         "S", "t", "e", "p", "s">>,
       <<"C", "u", "s", "t", "o", "m", " ", "F", "i", "e", "l", "d", " ",
         "(", "x", "d", " ", "N", "o", "t", "e", "s", ")">> >>

\* bool(x) of a text or None
Truthy(x) == x # None /\ x # <<>>

\* open(os.path.join(input_folder, name))
FileAt(name) == folder.files[name]

\* the three calls of lines 174-177, given the two files of the pair
PairResults(base_file, testcase_file) ==
    [custom_field_premise |-> extract_premise_and_requirement(base_file),
     base |-> parse_dita(base_file),
     testcase |-> parse_testcase_dita(testcase_file)]

ExtractorResults(pr) == PairResults(FileAt(pr[1]), FileAt(pr[2]))

\* the row of lines 180-186
RowOf(r) ==
    <<r.base.title, r.base.description, r.custom_field_premise,
      json_dumps(r.testcase.custom_fields), r.testcase.xd_note>>

\* as OpenedOutput, the file being opened for appending
OpenedOutputAppending == [exists |-> TRUE, rows |-> out.rows]

\* open(output_csv, "w"): the file is created or truncated
OpenedOutput == [exists |-> TRUE, rows |-> <<>>]

\* os.listdir returns the names in some order: here forwards or backwards
NameOrder ==
    << <<"a", ".", "d", "i", "t", "a">>,
       <<"a", "_", "t", "e", "s", "t", "c", "a", "s", "e", ".", "d", "i", "t", "a">>,
       <<"b", ".", "d", "i", "t", "a">>,
       <<"b", "_", "t", "e", "s", "t", "c", "a", "s", "e", ".", "d", "i", "t", "a">> >>

ListDir ==
    LET present == SelectSeq(NameOrder, LAMBDA n : n \in DOMAIN folder.files)
    IN  {present, [n \in 1..Len(present) |-> present[Len(present) + 1 - n]]}

\* os.listdir raises: the except branch of line 200, nothing else is done
\* (as ListFolderFails, the output file having been opened before the listing)
ListFolderFailsAfterOpen ==
    /\ pc = "start"
    /\ ~folder.ok
    /\ pc' = "caught"
    /\ out' = OpenedOutput
    /\ UNCHANGED <<folder, listing, matched_files, pair_index, data, results,
                   row_pair, row_index, before, fn,
                   extractorVars>>

ListFolderFails ==
    /\ pc = "start"
    /\ ~folder.ok
    /\ pc' = "caught"
    /\ UNCHANGED <<folder, out, listing, matched_files, pair_index, data, results,
                   row_pair, row_index, before, fn,
                   extractorVars>>

\* lines 161-169
ListFolder ==
    /\ pc = "start"
    /\ folder.ok
    /\ \E names \in ListDir :
          /\ listing' = names
          /\ matched_files' = MatchedFiles(names)
    /\ data' = <<>>
    /\ row_pair' = <<>>
    /\ pair_index' = 1
    /\ pc' = "loop"
    /\ UNCHANGED <<folder, out, results, row_index, before, fn,
                   extractorVars>>

\* one turn of the loop of lines 170-186
ExtractPair ==
    /\ pc = "loop"
    /\ pair_index <= Len(matched_files)
    /\ LET r == ExtractorResults(matched_files[pair_index])
       IN  /\ results' = r
           /\ IF Truthy(r.base.title) /\ Truthy(r.testcase.title)
              THEN /\ data' = Append(data, RowOf(r))
                   /\ row_pair' = Append(row_pair, pair_index)
              ELSE UNCHANGED <<data, row_pair>>
    /\ pair_index' = pair_index + 1
    /\ UNCHANGED <<folder, out, pc, listing, matched_files, row_index, before,
                   fn, extractorVars>>

\* line 188, the loop being over
OpenOutput ==
    /\ pc = "loop"
    /\ pair_index > Len(matched_files)
    /\ out' = OpenedOutput
    /\ pc' = "header"
    /\ UNCHANGED <<folder, listing, matched_files, pair_index, data, results,
                   row_pair, row_index, before, fn,
                   extractorVars>>

\* line 188 raises (the output file cannot be written): the except branch
OpenOutputFails ==
    /\ pc = "loop"
    /\ pair_index > Len(matched_files)
    /\ pc' = "caught"
    /\ UNCHANGED <<folder, out, listing, matched_files, pair_index, data, results,
                   row_pair, row_index, before, fn,
                   extractorVars>>

\* lines 190-196
WriteHeader ==
    /\ pc = "header"
    /\ out' = [out EXCEPT !.rows = Append(@, HeaderRow)]
    /\ row_index' = 1
    /\ pc' = "rows"
    /\ UNCHANGED <<folder, listing, matched_files, pair_index, data, results,
                   row_pair, before, fn,
                   extractorVars>>

\* line 197, one row
WriteRow ==
    /\ pc = "rows"
    /\ row_index <= Len(data)
    /\ out' = [out EXCEPT !.rows = Append(@, data[row_index])]
    /\ row_index' = row_index + 1
    /\ UNCHANGED <<folder, pc, listing, matched_files, pair_index, data, results,
                   row_pair, before, fn,
                   extractorVars>>

\* a write raises: the except branch, what was written stays
WriteFails ==
    /\ \/ pc = "header"
       \/ pc = "rows" /\ row_index <= Len(data)
    /\ pc' = "caught"
    /\ UNCHANGED <<folder, out, listing, matched_files, pair_index, data, results,
                   row_pair, row_index, before, fn,
                   extractorVars>>

\* the file is closed, line 199
Finish ==
    /\ pc = "rows"
    /\ row_index > Len(data)
    /\ pc' = "done"
    /\ UNCHANGED <<folder, out, listing, matched_files, pair_index, data, results,
                   row_pair, row_index, before, fn,
                   extractorVars>>

Returned == pc \in {"done", "caught"}

\* a new run of the program (line 207) starts with no locals
FreshRun ==
    /\ pc' = "start"
    /\ listing' = <<>>
    /\ matched_files' = <<>>
    /\ pair_index' = 0
    /\ data' = <<>>
    /\ results' = NoResult
    /\ row_pair' = <<>>
    /\ row_index' = 0
    /\ before' = out

\* the program is run again, the folder being as it was
RunAgain ==
    /\ Returned
    /\ FreshRun
    /\ UNCHANGED <<folder, out, fn, extractorVars>>

\* a file is deleted from the folder, and the program is run again
DeleteFile ==
    /\ Returned
    /\ folder.ok
    /\ \E name \in DOMAIN folder.files :
          folder' = [folder EXCEPT !.files =
                        [n \in DOMAIN folder.files \ {name} |-> folder.files[n]]]
    /\ FreshRun
    /\ UNCHANGED <<out, fn, extractorVars>>

\* the folder is deleted, and the program is run again
DeleteFolder ==
    /\ Returned
    /\ folder.ok
    /\ folder' = NoFolder
    /\ FreshRun
    /\ UNCHANGED <<out, fn, extractorVars>>

\* The files a folder may hold
TxTitleA == <<" ", "A", " ">>
TxTitleB == <<"B">>
TxTitleTC == <<"T", "C">>
TxScope == <<"S", "c", "o", "p", "e">>

BaseGood ==
    File(TRUE, <<Elem("title", 0, TxTitleA)>>
               \o DlEntry(0, TxScope, TRUE, 1)
               \o <<Elem("entry", 0, <<>>), Elem("p", 1, TxPremA)>>)
BaseOther == File(TRUE, <<Elem("title", 0, TxTitleB)>>)
BaseBlankTitle == File(TRUE, <<Elem("title", 0, TxBlank)>> \o DlEntry(0, TxScope, TRUE, 1))
TestcaseGood ==
    File(TRUE, <<Elem("title", 0, TxTitleTC)>>
               \o DlEntry(0, TxR1, TRUE, 1)
               \o <<Elem("entry", 0, <<>>), Elem("p", 1, XdMarker)>>)
TestcaseNoTitle == File(TRUE, DlEntry(0, TxR1, TRUE, 1))
TestcaseBlankTitle == File(TRUE, <<Elem("title", 0, <<>>)>> \o DlEntry(0, TxR1, TRUE, 1))
Unreadable == File(FALSE, <<>>)

FileChoices ==
    [n \in 1..Len(NameOrder) |->
        CASE n = 1 -> {BaseGood, BaseBlankTitle, Unreadable}
          [] n = 2 -> {TestcaseGood, TestcaseNoTitle, TestcaseBlankTitle, Unreadable}
          [] n = 3 -> {BaseOther, Unreadable}
          [] n = 4 -> {TestcaseGood, TestcaseNoTitle, Unreadable}]

AllFiles == UNION {FileChoices[n] : n \in 1..Len(NameOrder)}

Folders ==
    UNION {
      {fs \in [{NameOrder[n] : n \in S} -> AllFiles] :
          \A n \in S : fs[NameOrder[n]] \in FileChoices[n]}
      : S \in SUBSET (1..Len(NameOrder))}

Init ==
    /\ folder \in {[ok |-> TRUE, files |-> fs] : fs \in Folders} \cup {NoFolder}
    /\ out = Absent
    /\ pc = "start"
    /\ listing = <<>>
    /\ matched_files = <<>>
    /\ pair_index = 0
    /\ data = <<>>
    /\ results = NoResult
    /\ row_pair = <<>>
    /\ row_index = 0
    /\ before = Absent
    /\ fn = "process_folder"
    /\ ExtractorIdle

Next ==
    \/ ListFolderFails
    \/ ListFolder
    \/ ExtractPair
    \/ OpenOutput
    \/ OpenOutputFails
    \/ WriteHeader
    \/ WriteRow
    \/ WriteFails
    \/ Finish
    \/ RunAgain
    \/ DeleteFile
    \/ DeleteFolder

Spec == Init /\ [][Next]_vars


-----------------------------------------------------------------------------
(* Properties of process_folder                                            *)

\* the title a parser returns for a file: None for an unreadable file, the
\* text of the first title element, "Unknown Title" when there is none
TitleIn(f) ==
    IF ~f.readable THEN None
    ELSE LET S == {n \in 1..Len(f.doc) : f.doc[n].tag = "title"}
         IN  IF S = {} THEN UnknownTitle
             ELSE get_text(f.doc, CHOOSE n \in S : \A m \in S : n <= m)

BaseFileOf(n) == FileAt(matched_files[n][1])
TestcaseFileOf(n) == FileAt(matched_files[n][2])

\* the matched pairs whose two titles are non-empty and not None
TitledPairs ==
    {n \in 1..Len(matched_files) :
        /\ TitleIn(BaseFileOf(n)) \notin {None, <<>>}
        /\ TitleIn(TestcaseFileOf(n)) \notin {None, <<>>}}

\* C2: when a run has completed the write, the output file holds the header row
\* first and once, then one data row for each matched pair whose base title and
\* testcase title are both non-empty and non-None, and no other row; nothing
\* of an earlier run's content remains.
C2_OutputIsHeaderThenTitledPairs ==
    pc = "done" =>
        /\ out.exists
        /\ Len(out.rows) = 1 + Cardinality(TitledPairs)
        /\ out.rows[1] = HeaderRow
        /\ row_pair = SortNat(TitledPairs)
        /\ \A n \in 1..Len(row_pair) :
               /\ out.rows[n + 1] = data[n]
               /\ out.rows[n + 1][1] = TitleIn(BaseFileOf(row_pair[n]))
               /\ out.rows[n + 1] # HeaderRow

\* a completed run over the longer output of an earlier run, with a data row
C2_Witness ==
    /\ pc = "done"
    /\ Len(before.rows) > Len(out.rows)
    /\ Len(out.rows) = 2
    /\ Len(matched_files) = 1

\* C3: a matched pair whose testcase file parses but has no title element gets
\* no data row.
C3_NoRowWithoutTestcaseTitle ==
    pc = "done" =>
        \A n \in 1..Len(matched_files) :
            (/\ TestcaseFileOf(n).readable
             /\ \A m \in 1..Len(TestcaseFileOf(n).doc) :
                    TestcaseFileOf(n).doc[m].tag # "title")
            => n \notin Range(row_pair)

AllNone(r, fields) == \A f \in fields : r[f] = None

\* C7: a file that cannot be read or parsed never aborts the run: the except
\* branch of process_folder is reached only by a failed listing or after every
\* pair has been processed, the write is reached with every pair processed,
\* each failing call has returned its empty result, and the row of a pair whose
\* files are readable is the row these two files give by themselves.
C7_ReadFailuresDoNotAbort ==
    /\ pc = "caught" => ~folder.ok \/ pair_index = Len(matched_files) + 1
    /\ pc \in {"header", "rows", "done"} => pair_index = Len(matched_files) + 1
    /\ extract_xd_note(Unreadable) = <<>>
    /\ pc # "start" /\ pair_index > 1 =>
          LET n == pair_index - 1
          IN  /\ ~BaseFileOf(n).readable =>
                    /\ results.custom_field_premise = <<>>
                    /\ AllNone(results.base,
                               {"title", "description", "premise", "requirements"})
              /\ ~TestcaseFileOf(n).readable =>
                    AllNone(results.testcase, {"title", "xd_note", "custom_fields"})
    /\ pc # "start" =>
          /\ \A n \in 1..Len(row_pair) :
                 /\ row_pair[n] < pair_index
                 /\ data[n] = RowOf(PairResults(BaseFileOf(row_pair[n]),
                                                TestcaseFileOf(row_pair[n])))
          /\ \A n \in TitledPairs : n < pair_index => n \in Range(row_pair)

\* the first pair has an unreadable file, the second pair has given its row,
\* and the write has been completed
C7_Witness ==
    /\ pc = "done"
    /\ Len(matched_files) = 2
    /\ ~BaseFileOf(1).readable \/ ~TestcaseFileOf(1).readable
    /\ row_pair = <<2>>
    /\ Len(out.rows) = 2

\* C10: the output file is as the run found it until the folder has been listed
\* and every pair extracted; a failed listing is caught and leaves the output
\* file as it was (absent if it was absent); the header row is written before
\* any data row.
C10_OutputTouchedOnlyAfterExtraction ==
    /\ pc \in {"start", "loop"} => out = before
    /\ pc = "caught" /\ ~folder.ok => out = before /\ listing = <<>>
    /\ out # before => pair_index = Len(matched_files) + 1
    /\ pc = "header" => out.rows = <<>>
    /\ pc \in {"rows", "done"} =>
          /\ out.rows[1] = HeaderRow
          /\ \A n \in 2..Len(out.rows) : out.rows[n] = data[n - 1]

\* the listing has failed in a run that found the output of an earlier run
C10_Witness ==
    /\ pc = "caught"
    /\ ~folder.ok
    /\ before.exists
    /\ Len(before.rows) >= 2
    /\ out = before

====
